---- MODULE Spec2Model ----
(***************************************************************************)
(* State-machine model of server.py: the Slack tool dispatcher, the        *)
(* SlackClient operations and fetch_token, with the slack_bots table and    *)
(* the remote Slack API as environment.                                     *)
(***************************************************************************)
EXTENDS Integers, Sequences, FiniteSets, TLC

VARIABLES store, inv, open_conns

vars == <<store, inv, open_conns>>

----------------------------------------------------------------------------
(* Bounds and program constants *)

NumSlots == 2            \* concurrent invocations in SpecConc
MaxLimit == 201          \* largest page size a caller passes

MaxPageSize == 200
DefaultListLimit == 100
DefaultHistoryLimit == 10

----------------------------------------------------------------------------
(* Value domains *)

Tenants == {"T1", "T2"}
NoRow == "<no row>"
CredsOf == [t \in Tenants |-> IF t = "T1" THEN {"xoxb-1", "xoxb-1r"} ELSE {"xoxb-2"}]
AllCreds == UNION {CredsOf[t] : t \in Tenants}

\* Python Optional[str]: None is <<>>, a string s is <<s>>
None == <<>>
Some(s) == <<s>>

StrArgs(v) == {"", v}
ChannelArgs == {"", "C1", "C2"}
LimitArgs == {50, MaxPageSize} \cup ((MaxPageSize + 1)..MaxLimit)
CursorArgs == {None, Some(""), Some("dXNlcjpVMQ==")}

Statuses == {200, 500}

Min(a, b) == IF a <= b THEN a ELSE b

\* python truthiness of an Optional[str]
Truthy(c) == c # None /\ c[1] # ""

\* "%s" formatting of an Optional[str]
Fmt(c) == IF c = None THEN "None" ELSE c[1]

----------------------------------------------------------------------------
(* SlackClient: the request each operation builds *)

_get_headers(token) ==
    [Authorization |-> <<"Bearer ", token>>, ContentType |-> "application/json"]

\* users.conversations with the cursor always put in the parameters
get_user_conversations_cursor_always(headers, c) ==
    [method |-> "GET", url |-> "https://slack.com/api/users.conversations",
     headers |-> headers,
     params |-> [user |-> c.current_user_id, types |-> "public_channel,private_channel",
                 limit |-> Min(c.limit, MaxPageSize),
                 cursor |-> IF c.cursor = None THEN "" ELSE c.cursor[1]]]

get_user_conversations(headers, c) ==
    [method |-> "GET", url |-> "https://slack.com/api/users.conversations",
     headers |-> headers,
     params |-> IF Truthy(c.cursor)
                THEN [user |-> c.current_user_id, types |-> "public_channel,private_channel",
                      limit |-> Min(c.limit, MaxPageSize), cursor |-> c.cursor[1]]
                ELSE [user |-> c.current_user_id, types |-> "public_channel,private_channel",
                      limit |-> Min(c.limit, MaxPageSize)]]

post_message(headers, c) ==
    [method |-> "POST", url |-> "https://slack.com/api/chat.postMessage",
     headers |-> headers,
     json |-> [channel |-> c.channel_id, text |-> c.text]]

post_reply(headers, c) ==
    [method |-> "POST", url |-> "https://slack.com/api/chat.postMessage",
     headers |-> headers,
     json |-> [channel |-> c.channel_id, thread_ts |-> c.thread_ts, text |-> c.text]]

add_reaction(headers, c) ==
    [method |-> "POST", url |-> "https://slack.com/api/reactions.add",
     headers |-> headers,
     json |-> [channel |-> c.channel_id, timestamp |-> c.timestamp, name |-> c.reaction]]

get_channel_history(headers, c) ==
    [method |-> "GET", url |-> "https://slack.com/api/conversations.history",
     headers |-> headers,
     params |-> [channel |-> c.channel_id, limit |-> c.limit]]

get_thread_replies(headers, c) ==
    [method |-> "GET", url |-> "https://slack.com/api/conversations.replies",
     headers |-> headers,
     params |-> [channel |-> c.channel_id, ts |-> c.thread_ts]]

\* users.list with the page size passed through
get_users_unclamped(headers, c) ==
    [method |-> "GET", url |-> "https://slack.com/api/users.list",
     headers |-> headers,
     params |-> IF Truthy(c.cursor)
                THEN [limit |-> c.limit, cursor |-> c.cursor[1]]
                ELSE [limit |-> c.limit]]

get_users(headers, c) ==
    [method |-> "GET", url |-> "https://slack.com/api/users.list",
     headers |-> headers,
     params |-> IF Truthy(c.cursor)
                THEN [limit |-> Min(c.limit, MaxPageSize), cursor |-> c.cursor[1]]
                ELSE [limit |-> Min(c.limit, MaxPageSize)]]

get_user_profile(headers, c) ==
    [method |-> "GET", url |-> "https://slack.com/api/users.profile.get",
     headers |-> headers,
     params |-> [user |-> c.user_id, include_labels |-> TRUE]]

\* the request of the client operation c.op, made with the looked-up token
SlackClient(c, token) ==
    LET headers == _get_headers(token) IN
    CASE c.op = "get_user_conversations" -> get_user_conversations(headers, c)
      [] c.op = "post_message"           -> post_message(headers, c)
      [] c.op = "post_reply"             -> post_reply(headers, c)
      [] c.op = "add_reaction"           -> add_reaction(headers, c)
      [] c.op = "get_channel_history"    -> get_channel_history(headers, c)
      [] c.op = "get_thread_replies"     -> get_thread_replies(headers, c)
      [] c.op = "get_users"              -> get_users(headers, c)
      [] c.op = "get_user_profile"       -> get_user_profile(headers, c)

----------------------------------------------------------------------------
(* The remote API: what it may answer *)

ListingBodies ==
    { [kind |-> "json", value |-> [ok |-> FALSE, error |-> "ratelimited"]],
      [kind |-> "json", value |-> [ok |-> TRUE, channels |-> <<>>]],
      [kind |-> "json", value |-> [ok |-> TRUE, channels |-> <<[id |-> "C1"]>>]],
      [kind |-> "json", value |-> [ok |-> TRUE, channels |-> <<[id |-> "C2"], [id |-> "C1"]>>]],
      [kind |-> "text", value |-> [ok |-> FALSE, error |-> "<html>"]] }

OtherBodies ==
    { [kind |-> "json", value |-> [ok |-> TRUE, ts |-> "1700000000.000100"]],
      [kind |-> "json", value |-> [ok |-> FALSE, error |-> "ratelimited"]],
      [kind |-> "text", value |-> [ok |-> FALSE, error |-> "<html>"]] }

Bodies(req) ==
    IF req.url = "https://slack.com/api/users.conversations" THEN ListingBodies ELSE OtherBodies

Responses(req) == [status : Statuses, body : Bodies(req)]

\* Response.json(): the decoded body, for a body that is JSON
IsJson(resp) == resp.body.kind = "json"
json(resp) == resp.body.value

\* convs.get("channels", [])
GetChannels(convs) == IF "channels" \in DOMAIN convs THEN convs.channels ELSE <<>>

\* [c["id"] for c in channels]
ChannelIds(channels) == [k \in 1..Len(channels) |-> channels[k].id]

InList(x, s) == \E k \in 1..Len(s) : s[k] = x

----------------------------------------------------------------------------
(* Exceptions *)

HTTPException(status_code, detail) ==
    [type |-> "HTTPException", status_code |-> status_code, detail |-> detail]

\* exceptions that are not HTTPException carry no status code
Exception(type, detail) == [type |-> type, status_code |-> 0, detail |-> detail]

\* ValueError(f"No bot_token found for team_id {team_id}")
NoBotToken(team_id) == Exception("ValueError", <<"No bot_token found for team_id ", team_id>>)

----------------------------------------------------------------------------
(* One tool invocation *)

Idle ==
    [pc |-> "idle", tool |-> "", args |-> <<>>, log |-> <<>>, call |-> <<>>,
     pending |-> <<>>, token |-> "", reads |-> 0, lookups |-> <<>>,
     reqs |-> <<>>, resps |-> <<>>, ret |-> <<>>, result |-> <<>>, error |-> <<>>]

\* entry of a tool function: its logger.info record
Begin(tool, a, log) == [Idle EXCEPT !.pc = "tool", !.tool = tool, !.args = a, !.log = log]

\* raise e out of the tool function
Raise(r, e) == [r EXCEPT !.pc = "done", !.error = <<e>>]

\* call the SlackClient operation c: it starts with _get_headers -> fetch_token
Invoke(r, c) == [r EXCEPT !.pc = "connect", !.call = c, !.pending = <<>>, !.token = "", !.ret = <<>>]

\* a 403 whose message also prints the token in hand
Forbidden_leak(r) ==
    HTTPException(403, <<"User ", r.args.ext_uid, " does not have access to channel ",
                         r.args.channel_id, " with ", r.token>>)

\* HTTPException(403, f"User {ext_uid} does not have access to channel {channel_id}")
Forbidden(r) ==
    HTTPException(403, <<"User ", r.args.ext_uid, " does not have access to channel ", r.args.channel_id>>)

\* the membership test left out
HasAccess_unguarded(channel_id, convs) == TRUE

\* channel_id in [c["id"] for c in convs.get("channels", [])]
HasAccess(channel_id, convs) == InList(channel_id, ChannelIds(GetChannels(convs)))

\* the query without its WHERE clause: the first row of the table
Row_unfiltered(table, team_id) == table["T1"]

\* SELECT bot_token FROM slack_bots WHERE team_id = %s ; fetchone()
Row(table, team_id) == table[team_id]

\* the lookup without the "if not row" test
FetchOutcome_unchecked(row, team_id) == <<>>

\* if not row: raise ValueError(...) ; return row[0]
FetchOutcome(row, team_id) == IF row = NoRow THEN <<NoBotToken(team_id)>> ELSE <<>>

----------------------------------------------------------------------------
(* Arguments the callers pass *)

ListChannelsArgs ==
    [ext_tid : Tenants, ext_uid : StrArgs("U1"),
     limit : LimitArgs \cup {DefaultListLimit}, cursor : CursorArgs]
PostMessageArgs == [ext_tid : Tenants, channel_id : ChannelArgs, text : StrArgs("hi")]
ReplyArgs ==
    [ext_tid : Tenants, channel_id : StrArgs("C1"), thread_ts : StrArgs("1700.01"), text : StrArgs("hi")]
ReactionArgs ==
    [ext_tid : Tenants, channel_id : StrArgs("C1"), timestamp : StrArgs("1700.01"),
     reaction : StrArgs("thumbsup")]
HistoryArgs ==
    [ext_tid : Tenants, ext_uid : StrArgs("U1"), channel_id : ChannelArgs,
     limit : LimitArgs \cup {DefaultHistoryLimit}]
ThreadRepliesArgs == [ext_tid : Tenants, channel_id : StrArgs("C1"), thread_ts : StrArgs("1700.01")]
UsersArgs == [ext_tid : Tenants, limit : LimitArgs \cup {DefaultListLimit}, cursor : CursorArgs]
ProfileArgs == [ext_tid : Tenants, user_id : StrArgs("U1")]

\* the narrower inputs of the concurrent specification
ConcProfileArgs == [ext_tid : Tenants, user_id : StrArgs("U1")]

----------------------------------------------------------------------------
(* Tool functions *)

slack_list_channels(i, a) ==
    /\ inv[i].pc = "idle"
    /\ LET r == Begin("slack_list_channels", a,
                      <<"slack_list_channels called team=", a.ext_tid, " user=", a.ext_uid,
                        " limit=", ToString(a.limit), " cursor=", Fmt(a.cursor)>>)
       IN inv' = [inv EXCEPT ![i] =
                    Invoke(r, [op |-> "get_user_conversations", team_id |-> a.ext_tid,
                               current_user_id |-> a.ext_uid, limit |-> a.limit,
                               cursor |-> a.cursor])]
    /\ UNCHANGED <<store, open_conns>>

slack_post_message(i, a) ==
    /\ inv[i].pc = "idle"
    /\ LET r == Begin("slack_post_message", a,
                      <<"slack_post_message team=", a.ext_tid, " ", a.channel_id, ": ", a.text>>)
       IN inv' = [inv EXCEPT ![i] =
                    IF a.channel_id = "" \/ a.text = ""
                    THEN Raise(r, HTTPException(400, <<"channel_id and text are required">>))
                    ELSE Invoke(r, [op |-> "post_message", team_id |-> a.ext_tid,
                                    channel_id |-> a.channel_id, text |-> a.text])]
    /\ UNCHANGED <<store, open_conns>>

slack_reply_to_thread(i, a) ==
    /\ inv[i].pc = "idle"
    /\ LET r == Begin("slack_reply_to_thread", a,
                      <<"slack_reply_to_thread team=", a.ext_tid, " ", a.channel_id, " ",
                        a.thread_ts, ": ", a.text>>)
       IN inv' = [inv EXCEPT ![i] =
                    IF a.channel_id = "" \/ a.thread_ts = "" \/ a.text = ""
                    THEN Raise(r, HTTPException(400, <<"channel_id, thread_ts, and text are required">>))
                    ELSE Invoke(r, [op |-> "post_reply", team_id |-> a.ext_tid,
                                    channel_id |-> a.channel_id, thread_ts |-> a.thread_ts,
                                    text |-> a.text])]
    /\ UNCHANGED <<store, open_conns>>

slack_add_reaction(i, a) ==
    /\ inv[i].pc = "idle"
    /\ LET r == Begin("slack_add_reaction", a,
                      <<"slack_add_reaction team=", a.ext_tid, " ", a.channel_id, " ",
                        a.timestamp, " -> :", a.reaction, ":">>)
       IN inv' = [inv EXCEPT ![i] =
                    IF a.channel_id = "" \/ a.timestamp = "" \/ a.reaction = ""
                    THEN Raise(r, HTTPException(400, <<"channel_id, timestamp, and reaction are required">>))
                    ELSE Invoke(r, [op |-> "add_reaction", team_id |-> a.ext_tid,
                                    channel_id |-> a.channel_id, timestamp |-> a.timestamp,
                                    reaction |-> a.reaction])]
    /\ UNCHANGED <<store, open_conns>>

\* lines 118-120: log, then the membership listing with the default page size
slack_get_channel_history(i, a) ==
    /\ inv[i].pc = "idle"
    /\ LET r == Begin("slack_get_channel_history", a,
                      <<"slack_get_channel_history called team=", a.ext_tid, " user=", a.ext_uid,
                        " channel=", a.channel_id, " limit=", ToString(a.limit)>>)
       IN inv' = [inv EXCEPT ![i] =
                    Invoke(r, [op |-> "get_user_conversations", team_id |-> a.ext_tid,
                               current_user_id |-> a.ext_uid, limit |-> DefaultListLimit,
                               cursor |-> None])]
    /\ UNCHANGED <<store, open_conns>>

\* lines 121-124: the membership check on the listing, then the history call
slack_get_channel_history_check(i) ==
    /\ inv[i].pc = "returned"
    /\ inv[i].tool = "slack_get_channel_history"
    /\ inv[i].call.op = "get_user_conversations"
    /\ LET r == inv[i]
           a == r.args
       IN inv' = [inv EXCEPT ![i] =
                    IF ~HasAccess(a.channel_id, r.ret[1])
                    THEN Raise(r, Forbidden(r))
                    ELSE Invoke(r, [op |-> "get_channel_history", team_id |-> a.ext_tid,
                                    channel_id |-> a.channel_id, limit |-> a.limit])]
    /\ UNCHANGED <<store, open_conns>>

slack_get_thread_replies(i, a) ==
    /\ inv[i].pc = "idle"
    /\ LET r == Begin("slack_get_thread_replies", a,
                      <<"slack_get_thread_replies team=", a.ext_tid, " ", a.channel_id, " ",
                        a.thread_ts>>)
       IN inv' = [inv EXCEPT ![i] =
                    IF a.channel_id = "" \/ a.thread_ts = ""
                    THEN Raise(r, HTTPException(400, <<"channel_id and thread_ts are required">>))
                    ELSE Invoke(r, [op |-> "get_thread_replies", team_id |-> a.ext_tid,
                                    channel_id |-> a.channel_id, thread_ts |-> a.thread_ts])]
    /\ UNCHANGED <<store, open_conns>>

slack_get_users(i, a) ==
    /\ inv[i].pc = "idle"
    /\ LET r == Begin("slack_get_users", a,
                      <<"slack_get_users team=", a.ext_tid, " limit=", ToString(a.limit),
                        " cursor=", Fmt(a.cursor)>>)
       IN inv' = [inv EXCEPT ![i] =
                    Invoke(r, [op |-> "get_users", team_id |-> a.ext_tid,
                               limit |-> a.limit, cursor |-> a.cursor])]
    /\ UNCHANGED <<store, open_conns>>

slack_get_user_profile(i, a) ==
    /\ inv[i].pc = "idle"
    /\ LET r == Begin("slack_get_user_profile", a,
                      <<"slack_get_user_profile team=", a.ext_tid, " ", a.user_id>>)
       IN inv' = [inv EXCEPT ![i] =
                    IF a.user_id = ""
                    THEN Raise(r, HTTPException(400, <<"user_id is required">>))
                    ELSE Invoke(r, [op |-> "get_user_profile", team_id |-> a.ext_tid,
                                    user_id |-> a.user_id])]
    /\ UNCHANGED <<store, open_conns>>

\* "return slack.<op>(...)": the tool returns what the client operation returned
tool_return(i) ==
    /\ inv[i].pc = "returned"
    /\ ~(inv[i].tool = "slack_get_channel_history" /\ inv[i].call.op = "get_user_conversations")
    /\ inv' = [inv EXCEPT ![i] = [@ EXCEPT !.pc = "done", !.result = inv[i].ret]]
    /\ UNCHANGED <<store, open_conns>>

\* the result or the exception is handed to the transport; the invocation is over
complete(i) ==
    /\ inv[i].pc = "done"
    /\ inv' = [inv EXCEPT ![i] = Idle]
    /\ UNCHANGED <<store, open_conns>>

----------------------------------------------------------------------------
(* fetch_token *)

\* conn = psycopg2.connect(DATABASE_URL)
fetch_token_connect(i) ==
    /\ inv[i].pc = "connect"
    /\ \/ /\ open_conns' = open_conns + 1
          /\ inv' = [inv EXCEPT ![i] = [@ EXCEPT !.pc = "execute"]]
       \/ /\ inv' = [inv EXCEPT ![i] =
                       Raise(@, Exception("psycopg2.OperationalError", <<"could not connect to server">>))]
          /\ UNCHANGED open_conns
    /\ UNCHANGED store

\* the try block: execute, fetchone, the "if not row" test
fetch_token_execute(i) ==
    /\ inv[i].pc = "execute"
    /\ LET r == inv[i]
           team_id == r.call.team_id
           row == Row(store, team_id)
           q == [r EXCEPT !.pc = "close", !.reads = @ + 1,
                          !.lookups = Append(@, store[team_id])]
       IN \/ inv' = [inv EXCEPT ![i] =
                       [q EXCEPT !.pending = FetchOutcome(row, team_id), !.token = row]]
          \/ inv' = [inv EXCEPT ![i] =
                       [q EXCEPT !.pending = <<Exception("psycopg2.Error", <<"query failed">>)>>]]
    /\ UNCHANGED <<store, open_conns>>

\* conn.close() on the return path only, not in a finally
fetch_token_finally_leak(i) ==
    /\ inv[i].pc = "close"
    /\ open_conns' = IF inv[i].pending = <<>> THEN open_conns - 1 ELSE open_conns
    /\ inv' = [inv EXCEPT ![i] =
                 IF @.pending = <<>> THEN [@ EXCEPT !.pc = "request"]
                 ELSE Raise(@, @.pending[1])]
    /\ UNCHANGED store

\* finally: conn.close(); then the return or the pending exception
fetch_token_finally(i) ==
    /\ inv[i].pc = "close"
    /\ open_conns' = open_conns - 1
    /\ inv' = [inv EXCEPT ![i] =
                 IF @.pending = <<>> THEN [@ EXCEPT !.pc = "request"]
                 ELSE Raise(@, @.pending[1])]
    /\ UNCHANGED store

----------------------------------------------------------------------------
(* requests.get / requests.post followed by .json() *)

\* the request sent again after a connection failure
http_request_retry(i) ==
    /\ inv[i].pc = "request"
    /\ LET r == inv[i]
           req == SlackClient(r.call, r.token)
           sent == [r EXCEPT !.reqs = Append(@, req)]
       IN \/ inv' = [inv EXCEPT ![i] = sent]
          \/ \E resp \in Responses(req) :
               inv' = [inv EXCEPT ![i] =
                         IF IsJson(resp)
                         THEN [sent EXCEPT !.pc = "returned", !.resps = Append(@, resp),
                                           !.ret = <<json(resp)>>]
                         ELSE Raise([sent EXCEPT !.resps = Append(@, resp)],
                                    Exception("JSONDecodeError", <<"Expecting value">>))]
    /\ UNCHANGED <<store, open_conns>>

http_request(i) ==
    /\ inv[i].pc = "request"
    /\ LET r == inv[i]
           req == SlackClient(r.call, r.token)
           sent == [r EXCEPT !.reqs = Append(@, req)]
       IN \/ inv' = [inv EXCEPT ![i] =
                       Raise(sent, Exception("requests.ConnectionError", <<"connection failed">>))]
          \/ \E resp \in Responses(req) :
               inv' = [inv EXCEPT ![i] =
                         IF IsJson(resp)
                         THEN [sent EXCEPT !.pc = "returned", !.resps = Append(@, resp),
                                           !.ret = <<json(resp)>>]
                         ELSE Raise([sent EXCEPT !.resps = Append(@, resp)],
                                    Exception("JSONDecodeError", <<"Expecting value">>))]
    /\ UNCHANGED <<store, open_conns>>

----------------------------------------------------------------------------
(* The slack_bots table is written by others: rows are inserted and rotated *)

rotate(t) ==
    /\ store[t] # NoRow
    /\ \E k \in CredsOf[t] \ {store[t]} : store' = [store EXCEPT ![t] = k]
    /\ UNCHANGED <<inv, open_conns>>

provision(t) ==
    /\ store[t] = NoRow
    /\ \E k \in CredsOf[t] : store' = [store EXCEPT ![t] = k]
    /\ UNCHANGED <<inv, open_conns>>

----------------------------------------------------------------------------
(* Specifications *)

InitStore == store = [t \in Tenants |-> IF t = "T1" THEN "xoxb-1" ELSE NoRow]

\* one invocation at a time, every tool, every input
Init ==
    /\ InitStore
    /\ inv = [i \in {1} |-> Idle]
    /\ open_conns = 0

Next ==
    \/ \E i \in DOMAIN inv : \E a \in ListChannelsArgs : slack_list_channels(i, a)
    \/ \E i \in DOMAIN inv : \E a \in PostMessageArgs : slack_post_message(i, a)
    \/ \E i \in DOMAIN inv : \E a \in ReplyArgs : slack_reply_to_thread(i, a)
    \/ \E i \in DOMAIN inv : \E a \in ReactionArgs : slack_add_reaction(i, a)
    \/ \E i \in DOMAIN inv : \E a \in HistoryArgs : slack_get_channel_history(i, a)
    \/ \E i \in DOMAIN inv : slack_get_channel_history_check(i)
    \/ \E i \in DOMAIN inv : \E a \in ThreadRepliesArgs : slack_get_thread_replies(i, a)
    \/ \E i \in DOMAIN inv : \E a \in UsersArgs : slack_get_users(i, a)
    \/ \E i \in DOMAIN inv : \E a \in ProfileArgs : slack_get_user_profile(i, a)
    \/ \E i \in DOMAIN inv : tool_return(i)
    \/ \E i \in DOMAIN inv : complete(i)
    \/ \E i \in DOMAIN inv : fetch_token_connect(i)
    \/ \E i \in DOMAIN inv : fetch_token_execute(i)
    \/ \E i \in DOMAIN inv : fetch_token_finally(i)
    \/ \E i \in DOMAIN inv : http_request(i)
    \/ \E t \in Tenants : rotate(t)
    \/ \E t \in Tenants : provision(t)

Spec == Init /\ [][Next]_vars

\* NumSlots invocations in flight at once
InitConc ==
    /\ InitStore
    /\ inv = [i \in 1..NumSlots |-> Idle]
    /\ open_conns = 0

NextConc ==
    \/ \E i \in DOMAIN inv : \E a \in ConcProfileArgs : slack_get_user_profile(i, a)
    \/ \E i \in DOMAIN inv : tool_return(i)
    \/ \E i \in DOMAIN inv : complete(i)
    \/ \E i \in DOMAIN inv : fetch_token_connect(i)
    \/ \E i \in DOMAIN inv : fetch_token_execute(i)
    \/ \E i \in DOMAIN inv : fetch_token_finally(i)
    \/ \E i \in DOMAIN inv : http_request(i)
    \/ \E t \in Tenants : rotate(t)
    \/ \E t \in Tenants : provision(t)

SpecConc == InitConc /\ [][NextConc]_vars

TypeOK ==
    /\ store \in [Tenants -> AllCreds \cup {NoRow}]
    /\ open_conns \in Nat
    /\ \A i \in DOMAIN inv :
         inv[i].pc \in {"idle", "connect", "execute", "close", "request", "returned", "done"}

----------------------------------------------------------------------------
(* Vocabulary of the properties *)

Active(i) == inv[i].pc # "idle"
Done(i) == inv[i].pc = "done"
Failed(i) == inv[i].error # <<>>
Err(i) == inv[i].error[1]

UrlListing == "https://slack.com/api/users.conversations"
UrlHistory == "https://slack.com/api/conversations.history"
UrlPost == "https://slack.com/api/chat.postMessage"

\* the required string arguments of each tool
Required(tool) ==
    CASE tool = "slack_list_channels"       -> {"ext_uid"}
      [] tool = "slack_post_message"        -> {"channel_id", "text"}
      [] tool = "slack_reply_to_thread"     -> {"channel_id", "thread_ts", "text"}
      [] tool = "slack_add_reaction"        -> {"channel_id", "timestamp", "reaction"}
      [] tool = "slack_get_channel_history" -> {"ext_uid", "channel_id"}
      [] tool = "slack_get_thread_replies"  -> {"channel_id", "thread_ts"}
      [] tool = "slack_get_users"           -> {}
      [] tool = "slack_get_user_profile"    -> {"user_id"}

MissingRequired(i) == \E f \in Required(inv[i].tool) : inv[i].args[f] = ""

\* failures of the store or of the network, as opposed to answers of the program
StoreFaults == {"psycopg2.OperationalError", "psycopg2.Error"}
RemoteFaults == {"requests.ConnectionError", "JSONDecodeError"}

\* the tenant of the invocation had no row whenever the invocation looked
NoRowFor(i) ==
    \/ store[inv[i].args.ext_tid] = NoRow
    \/ (inv[i].lookups # <<>> /\ inv[i].lookups[1] = NoRow)

BearerOf(req) == req.headers.Authorization

Range(f) == {f[k] : k \in DOMAIN f}

----------------------------------------------------------------------------
\* C1: an invocation with a missing or empty required string argument fails
\* with BadRequest (400) and issues no store query and no network request.
C1_MissingArgFailsFast ==
    \A i \in DOMAIN inv :
      (Active(i) /\ MissingRequired(i)) =>
         /\ inv[i].reads = 0
         /\ inv[i].reqs = <<>>
         /\ Done(i) => (Failed(i) /\ Err(i).status_code = 400)

\* C2: for a tenant without a row, and all required arguments present, the
\* invocation never sends a request and never succeeds; it fails with the
\* "No bot_token found" ValueError (never with the 400 of a bad request),
\* unless the store itself failed.
C2_UnknownTenantFails ==
    \A i \in DOMAIN inv :
      (Active(i) /\ ~MissingRequired(i) /\ NoRowFor(i)) =>
         /\ inv[i].reqs = <<>>
         /\ inv[i].result = <<>>
         /\ Done(i) =>
              /\ Failed(i)
              /\ Err(i).status_code # 400
              /\ Err(i).type \notin StoreFaults => Err(i) = NoBotToken(inv[i].args.ext_tid)

C2_Witness ==
    \E i \in DOMAIN inv :
      /\ Done(i) /\ inv[i].tool = "slack_get_channel_history" /\ ~MissingRequired(i)
      /\ inv[i].reads = 1
      /\ Failed(i) /\ Err(i).type = "ValueError"

----------------------------------------------------------------------------
\* the channel ids of the first-page listing an invocation received
Listed(i) == inv[i].resps # <<>> /\ inv[i].resps[1].body.kind = "json"
ListedChannels(i) ==
    LET v == inv[i].resps[1].body.value
    IN IF "channels" \in DOMAIN v THEN {v.channels[k].id : k \in DOMAIN v.channels} ELSE {}
HistoryReqs(i) == {k \in DOMAIN inv[i].reqs : inv[i].reqs[k].url = UrlHistory}

\* C3: history retrieval sends conversations.history only for a channel of
\* the first-page listing and then returns its payload; for any other
\* channel it fails with 403 naming the user and the channel, and no
\* conversations.history request is sent.
C3_HistoryGuard ==
    \A i \in DOMAIN inv :
      inv[i].tool = "slack_get_channel_history" =>
        LET a == inv[i].args IN
        /\ HistoryReqs(i) # {} => (Listed(i) /\ a.channel_id \in ListedChannels(i))
        /\ (Listed(i) /\ Done(i) /\ a.channel_id \notin ListedChannels(i)) =>
              /\ inv[i].error = <<HTTPException(403,
                      <<"User ", a.ext_uid, " does not have access to channel ", a.channel_id>>)>>
              /\ inv[i].result = <<>>
              /\ HistoryReqs(i) = {}
        /\ (Listed(i) /\ Done(i) /\ a.channel_id \in ListedChannels(i)) =>
              /\ ~Failed(i) =>
                    /\ HistoryReqs(i) = {2}
                    /\ inv[i].result = <<inv[i].resps[2].body.value>>
              /\ Failed(i) => Err(i).type \in StoreFaults \cup RemoteFaults
              /\ (Failed(i) /\ Err(i).type \in RemoteFaults) => HistoryReqs(i) = {2}

C3_Witness ==
    \E i \in DOMAIN inv :
      /\ Done(i) /\ inv[i].tool = "slack_get_channel_history"
      /\ inv[i].args.channel_id = "C2" /\ inv[i].args.ext_uid = "U1"
      /\ Listed(i) /\ ListedChannels(i) = {"C1"}
      /\ Failed(i) /\ Err(i).status_code = 403

C3_WitnessAllowed ==
    \E i \in DOMAIN inv :
      /\ Done(i) /\ inv[i].tool = "slack_get_channel_history"
      /\ inv[i].args.channel_id = "C1"
      /\ Listed(i) /\ ListedChannels(i) = {"C1"}
      /\ Len(inv[i].reqs) = 2 /\ inv[i].result # <<>>

----------------------------------------------------------------------------
\* C4: post-message sends exactly one request, a POST to chat.postMessage
\* with "Bearer K", K the credential stored for the invocation's own tenant
\* when it was looked up, and the body {channel, text}; what it returns is
\* the decoded response.
C4_PostMessage ==
    \A i \in DOMAIN inv :
      inv[i].tool = "slack_post_message" =>
        LET a == inv[i].args IN
        /\ Len(inv[i].reqs) <= 1
        /\ \A k \in DOMAIN inv[i].reqs :
             /\ inv[i].lookups[k] \in CredsOf[a.ext_tid]
             /\ inv[i].reqs[k] =
                  [method |-> "POST", url |-> UrlPost,
                   headers |-> [Authorization |-> <<"Bearer ", inv[i].lookups[k]>>,
                                ContentType |-> "application/json"],
                   json |-> [channel |-> a.channel_id, text |-> a.text]]
        /\ (Done(i) /\ (~Failed(i) \/ Err(i).type \in RemoteFaults)) => Len(inv[i].reqs) = 1
        /\ inv[i].result # <<>> =>
             /\ Len(inv[i].resps) = 1
             /\ inv[i].resps[1].body.kind = "json"
             /\ inv[i].result = <<inv[i].resps[1].body.value>>

C4_Witness ==
    \E i \in DOMAIN inv :
      /\ Done(i) /\ inv[i].tool = "slack_post_message"
      /\ inv[i].args = [ext_tid |-> "T2", channel_id |-> "C1", text |-> "hi"]
      /\ Len(inv[i].reqs) = 1 /\ BearerOf(inv[i].reqs[1]) = <<"Bearer ", "xoxb-2">>
      /\ inv[i].result # <<>>

----------------------------------------------------------------------------
Clamp(n) == IF n > 200 THEN 200 ELSE n

\* C5 as claimed: all three page-size operations transmit min(n, 200).
C5_AllPageSizesClamped ==
    \A i \in DOMAIN inv : \A k \in DOMAIN inv[i].reqs :
      LET q == inv[i].reqs[k] IN
      /\ (inv[i].tool \in {"slack_list_channels", "slack_get_users"})
            => q.params.limit = Clamp(inv[i].args.limit)
      /\ (inv[i].tool = "slack_get_channel_history" /\ q.url = UrlHistory)
            => q.params.limit = Clamp(inv[i].args.limit)

\* C5 amended: the two listing operations transmit min(n, 200); history
\* retrieval transmits n unchanged, also above 200, and its membership
\* listing asks for the default page of 100.
C5_ListingsClamped ==
    \A i \in DOMAIN inv : \A k \in DOMAIN inv[i].reqs :
      LET q == inv[i].reqs[k] IN
      /\ (inv[i].tool \in {"slack_list_channels", "slack_get_users"})
            => q.params.limit = Clamp(inv[i].args.limit)
      /\ (inv[i].tool = "slack_get_channel_history" /\ q.url = UrlHistory)
            => q.params.limit = inv[i].args.limit
      /\ (inv[i].tool = "slack_get_channel_history" /\ q.url = UrlListing)
            => q.params.limit = 100

C5_Witness ==
    \E i \in DOMAIN inv :
      /\ inv[i].tool = "slack_get_users" /\ inv[i].args.limit > 200
      /\ inv[i].reqs # <<>> /\ inv[i].reqs[1].params.limit = 200

----------------------------------------------------------------------------
\* C6: the two listing operations send no cursor parameter when the cursor
\* argument is absent, and forward a non-empty cursor unchanged.
C6_CursorOmittedOrForwarded ==
    \A i \in DOMAIN inv : \A k \in DOMAIN inv[i].reqs :
      (inv[i].tool \in {"slack_list_channels", "slack_get_users"}) =>
        LET c == inv[i].args.cursor
            params == inv[i].reqs[k].params
        IN /\ c = <<>> => "cursor" \notin DOMAIN params
           /\ (c # <<>> /\ c[1] # "") =>
                 ("cursor" \in DOMAIN params /\ params.cursor = c[1])

C6_Witness ==
    \E i \in DOMAIN inv :
      /\ inv[i].tool = "slack_list_channels" /\ inv[i].args.cursor = <<>>
      /\ inv[i].reqs # <<>> /\ DOMAIN inv[i].reqs[1].params = {"user", "types", "limit"}

C6_WitnessForwarded ==
    \E i \in DOMAIN inv :
      /\ inv[i].tool = "slack_get_users" /\ inv[i].args.cursor = <<"dXNlcjpVMQ==">>
      /\ inv[i].reqs # <<>> /\ inv[i].reqs[1].params.cursor = "dXNlcjpVMQ=="

----------------------------------------------------------------------------
\* C7: when the remote answers with a non-success status, the invocation
\* ends in a RemoteError and never returns the body as a result.
C7_NonSuccessIsRemoteError ==
    \A i \in DOMAIN inv :
      (Done(i) /\ \E k \in DOMAIN inv[i].resps : inv[i].resps[k].status # 200) =>
         /\ inv[i].result = <<>>
         /\ Failed(i) /\ Err(i).type = "RemoteError"

----------------------------------------------------------------------------
InFetch(i) == inv[i].pc \in {"execute", "close"}

\* C8: the open store connections are exactly those of the lookups in
\* progress; once no lookup is in progress, none is open.
C8_ConnectionsClosed ==
    /\ open_conns = Cardinality({i \in DOMAIN inv : InFetch(i)})
    /\ (\A i \in DOMAIN inv : ~InFetch(i)) => open_conns = 0

C8_Witness ==
    /\ open_conns = 0
    /\ \E i, j \in DOMAIN inv :
         /\ i # j
         /\ Done(i) /\ inv[i].reads = 1 /\ Failed(i) /\ Err(i).type = "psycopg2.Error"
         /\ Done(j) /\ inv[j].reads = 1 /\ Failed(j) /\ Err(j).type = "ValueError"

----------------------------------------------------------------------------
\* everything an invocation wrote to the log or put in an exception
Emitted(i) ==
    Range(inv[i].log) \cup (IF Failed(i) THEN Range(Err(i).detail) \cup {Err(i).type} ELSE {})

\* C9: no log record and no error message contains a stored credential.
C9_NoCredentialEmitted ==
    \A i \in DOMAIN inv : Emitted(i) \cap AllCreds = {}

C9_Witness ==
    \E i \in DOMAIN inv :
      /\ Done(i) /\ inv[i].token \in AllCreds
      /\ Failed(i) /\ Err(i).status_code = 403
      /\ inv[i].log # <<>>

----------------------------------------------------------------------------
\* C10 as claimed: one store read per invocation, and both requests of a
\* history retrieval carry the same credential.
C10_OneReadSameCredential ==
    \A i \in DOMAIN inv :
      /\ inv[i].reads <= 1
      /\ Len(inv[i].reqs) = 2 => BearerOf(inv[i].reqs[1]) = BearerOf(inv[i].reqs[2])

\* C10 amended: one store read per client operation started, at most two
\* and two only in history retrieval; at most two requests, the listing then
\* the history call, none repeated; each request carries the credential that
\* the lookup just before it found in the store.
C10_ReadPerRequest ==
    \A i \in DOMAIN inv :
      LET r == inv[i]
          hist == r.tool = "slack_get_channel_history"
      IN /\ r.reads = Len(r.lookups)
         /\ r.reads <= (IF hist THEN 2 ELSE 1)
         /\ Len(r.reqs) <= r.reads
         /\ Len(r.reqs) = 2 => (r.reqs[1].url = UrlListing /\ r.reqs[2].url = UrlHistory)
         /\ \A k \in DOMAIN r.reqs : BearerOf(r.reqs[k]) = <<"Bearer ", r.lookups[k]>>
         /\ (Done(i) /\ ~Failed(i)) =>
               (r.reads = (IF hist THEN 2 ELSE 1) /\ Len(r.reqs) = r.reads)
         /\ (Done(i) /\ Failed(i) /\ Err(i).status_code = 400) => r.reads = 0

C10_Witness ==
    \E i \in DOMAIN inv :
      /\ Done(i) /\ inv[i].tool = "slack_get_channel_history" /\ ~Failed(i)
      /\ inv[i].reads = 2 /\ Len(inv[i].reqs) = 2
      /\ BearerOf(inv[i].reqs[1]) = <<"Bearer ", "xoxb-1">>
      /\ BearerOf(inv[i].reqs[2]) = <<"Bearer ", "xoxb-1r">>

====
